---------------------------- MODULE Spec2Model ----------------------------
(***************************************************************************)
(* A model of tap_gitlab/client.py: the GitLabStream family of REST        *)
(* streams (URL parameters, native and emulated pagination, URL            *)
(* resolution, record post-processing, group partitions) and of the pull   *)
(* loop that drives them.                                                  *)
(*                                                                         *)
(* Representation.  A Python str is a sequence of atoms (one-character     *)
(* strings, or a whole word where its inner characters play no role).  An  *)
(* Optional value is a sequence of length at most one: None is <<>> and a  *)
(* value v is <<v>>.  A dict is a function whose DOMAIN is its key set.    *)
(* A call's outcome is a record [exc, val]: exc is "" for a normal return  *)
(* and the exception's name otherwise.                                     *)
(***************************************************************************)
EXTENDS Naturals, Integers, Sequences, FiniteSets, TLC

VARIABLES
    pc,                 \* position of the driving code
    stream,             \* the stream's class attributes
    config,             \* the tap configuration (dict)
    extra_url_params,   \* GitLabStream.extra_url_params (Optional dict)
    bookmarks,          \* what get_starting_timestamp answers, per context
    plus_encoded,       \* whether the transport percent-encodes "+" in a URL
    context,            \* the active partition context (Optional dict)
    next_page_token,    \* the token known for the next request (Optional str)
    params,             \* the dict get_url_params returned for the last request
    request_query,      \* response.request.url's query, as sent
    response,           \* the last response: [json, headers]
    result,             \* outcome of the operation under study
    row,                \* post_process: the raw record
    discard,            \* post_process: whether the framework drops the record
    order,              \* get_url: insertion order of the config and context keys
    partition_list,     \* the contexts the loop iterates over
    pidx,               \* index of the current partition in partition_list
    dataset,            \* server side: the records of the current partition
    sent,               \* history: the requests issued, <<pidx, page>>
    fetched,            \* history: the dataset indexes the current partition received
    finished            \* history: the partitions whose pagination has ended

vars == << pc, stream, config, extra_url_params, bookmarks, plus_encoded,
           context, next_page_token, params, request_query, response, result,
           row, discard, order, partition_list, pidx, dataset, sent, fetched,
           finished >>

---------------------------------------------------------------------------
(* Bounds of the model.                                                    *)

MaxHour == 2        \* timestamps are hours 0..MaxHour
MaxPageLen == 2     \* records on one page (the server's per_page)
MaxRecords == 3     \* records of one partition on the server
MaxGroupsLen == 4   \* characters of the `groups` setting
MaxPathLen == 6     \* atoms of a path template

---------------------------------------------------------------------------
(* Python values.                                                          *)

None == <<>>
Some(v) == <<v>>

\* Outcome of a call: a return value or a raised exception.
Return(v) == [exc |-> "", val |-> v]
Raise(e) == [exc |-> e, val |-> None]

\* dict.get(key, default), for a default that is an Optional.
DictGet(d, key, default) == IF key \in DOMAIN d THEN Some(d[key]) ELSE default

\* Python truthiness of an Optional str: None and "" are falsy.
Truthy(opt) == opt # None /\ opt[1] # <<>>

\* All sequences over S of length at most n.
SeqUpTo(S, n) == UNION {[1..k -> S] : k \in 0..n}

\* str.replace(old, new) for a one-atom old and new.
ReplaceAtom(s, old, new) == [i \in 1..Len(s) |-> IF s[i] = old THEN new ELSE s[i]]

---------------------------------------------------------------------------
(* Timestamps.  A timestamp text is <<h>> (naive) or <<h, "+", z>> (aware, *)
(* UTC offset z): h stands for the date and time part of an ISO-8601 text  *)
(* and z for its offset, each written as one atom.                         *)

Hours == 0..MaxHour
Offsets == 0..1

NaiveText(h) == <<ToString(h)>>
AwareText(h, z) == <<ToString(h), "+", ToString(z)>>
TimeTexts == {NaiveText(h) : h \in Hours}
             \cup {AwareText(h, z) : h \in Hours, z \in Offsets}

IsNumber(a, S) == \E n \in S : ToString(n) = a
NumberOf(a, S) == CHOOSE n \in S : ToString(n) = a

\* dateutil.parser.parse: the instant a text denotes, whether it carries an
\* offset, or a ParserError for a text that is no timestamp (such as one
\* whose "+" was turned into a space).
parse(text) ==
    IF Len(text) = 1 /\ IsNumber(text[1], Hours)
    THEN [err |-> FALSE, aware |-> FALSE, t |-> NumberOf(text[1], Hours)]
    ELSE IF /\ Len(text) = 3
            /\ IsNumber(text[1], Hours)
            /\ text[2] = "+"
            /\ IsNumber(text[3], Offsets)
    THEN [err |-> FALSE, aware |-> TRUE,
          t |-> NumberOf(text[1], Hours) - NumberOf(text[3], Offsets)]
    ELSE [err |-> TRUE, aware |-> FALSE, t |-> 0]

---------------------------------------------------------------------------
(* The query string of a URL: a sequence of <<name, value>> pairs, the     *)
(* value still encoded.                                                    *)

\* urllib.parse.quote_plus on one atom: a space becomes "+", a reserved
\* character its percent escape (one atom), a word stays as it is.
quote_plus_atom(a) ==
    IF a = " " THEN "+"
    ELSE IF a = "+" THEN "%2B"
    ELSE IF a = "{" THEN "%7B"
    ELSE IF a = "}" THEN "%7D"
    ELSE IF a = "/" THEN "%2F"
    ELSE a

quote_plus(s) == [i \in 1..Len(s) |-> quote_plus_atom(s[i])]

\* The transport's encoding of the params dict into the URL's query: a
\* None-valued parameter is dropped, every other value is str()'d and quoted.
\* A transport that leaves "+" as it is (encode_plus false) is the case the
\* source's comment on line 169 is about.
Urlencode(p, encode_plus) ==
    LET keys == {k \in DOMAIN p : p[k] # None}
        Enc(v) == [i \in 1..Len(v) |->
                      IF v[i] = "+" /\ ~encode_plus THEN "+" ELSE quote_plus_atom(v[i])]
    IN  {<<k, Enc(p[k][1])>> : k \in keys}

\* urllib.parse.unquote_plus on one atom.
unquote_plus_atom(a) ==
    IF a = "+" THEN " "
    ELSE IF a = "%2B" THEN "+"
    ELSE a

\* urllib.parse.parse_qs: name -> list of decoded values; a pair with a
\* blank value is dropped (keep_blank_values is False).  Each name occurs
\* once in a query built from a dict, so every list has one element.
parse_qs(query) ==
    LET kept == {q \in query : q[2] # <<>>}
        Dec(v) == [i \in 1..Len(v) |-> unquote_plus_atom(v[i])]
    IN  [k \in {q[1] : q \in kept} |->
            LET pair == CHOOSE q \in kept : q[1] = k IN <<Dec(pair[2])>>]

---------------------------------------------------------------------------
(* GitLabStream: request parameters and native pagination.                 *)

BOOKMARK_PARAM == "since"       \* GitLabStream.bookmark_param_name
NEXT_PAGE_HEADER == "X-Next-Page"

\* d[k] = v, as a new dict.
DictPut(d, k, v) == [x \in DOMAIN d \cup {k} |-> IF x = k THEN v ELSE d[x]]

\* Stream.get_starting_timestamp(context) of the framework: the bookmark the
\* sync of this partition starts from, None when there is none.
get_starting_timestamp(ctx) == bookmarks[ctx]

\* get_url_params with line 91's copy left out: params is then the very
\* dict object extra_url_params names, whenever that dict is truthy.
get_url_params_no_copy(ctx, token) ==
    LET shared == extra_url_params # None /\ DOMAIN extra_url_params[1] # {}
        p0 == IF shared THEN extra_url_params[1] ELSE <<>>
        p1 == IF Truthy(token) THEN DictPut(p0, "page", Some(token[1])) ELSE p0
        p2 == IF stream.replication_key # None
              THEN DictPut(DictPut(p1, "sort", Some(<<"asc">>)),
                           "order_by", Some(<<stream.replication_key[1]>>))
              ELSE p1
        p3 == IF stream.replication_key # None /\ stream.is_timestamp_replication_key
              THEN DictPut(p2, BOOKMARK_PARAM, get_starting_timestamp(ctx))
              ELSE p2
    IN  [params |-> p3,
         extra_url_params |-> IF shared THEN Some(p3) ELSE extra_url_params]

\* GitLabStream.get_url_params: the dict it returns, and extra_url_params as
\* the call leaves it.  A parameter's value is an Optional str.
get_url_params(ctx, token) ==
    LET p0 == IF extra_url_params # None /\ DOMAIN extra_url_params[1] # {}
              THEN extra_url_params[1] ELSE <<>>
        p1 == IF Truthy(token) THEN DictPut(p0, "page", Some(token[1])) ELSE p0
        p2 == IF stream.replication_key # None
              THEN DictPut(DictPut(p1, "sort", Some(<<"asc">>)),
                           "order_by", Some(<<stream.replication_key[1]>>))
              ELSE p1
        p3 == IF stream.replication_key # None /\ stream.is_timestamp_replication_key
              THEN DictPut(p2, BOOKMARK_PARAM, get_starting_timestamp(ctx))
              ELSE p2
    IN  [params |-> p3, extra_url_params |-> extra_url_params]

\* A native token that invents page "1" when the header is absent.
GitLabStream_get_next_page_token_default_one(resp, previous_token) ==
    Return(DictGet(resp.headers, NEXT_PAGE_HEADER, Some(<<"1">>)))

\* A native token that falls back on the previous token, not on None, when
\* the header is absent.
GitLabStream_get_next_page_token_keeps_previous(resp, previous_token) ==
    Return(DictGet(resp.headers, NEXT_PAGE_HEADER, previous_token))

\* GitLabStream.get_next_page_token.
GitLabStream_get_next_page_token(resp, previous_token) ==
    Return(DictGet(resp.headers, NEXT_PAGE_HEADER, None))

---------------------------------------------------------------------------
(* NoSinceProjectBasedStream: the emulated "since".                        *)

\* Lines 168-177: the cutoff read back from the sent request's query.  The
\* IndexError branch cannot be taken: parse_qs never yields an empty list.
cutoff_of(resp) ==
    LET request_parameters == parse_qs(resp.request_query)
    IN  IF BOOKMARK_PARAM \in DOMAIN request_parameters
        THEN Some(ReplaceAtom(request_parameters[BOOKMARK_PARAM][1], " ", "+"))
        ELSE None

\* The emulated token with line 183's test for an empty page left out:
\* results[-1] then raises IndexError on an empty list.
NoSince_get_next_page_token_no_empty_test(resp, previous_token) ==
    LET cutoff == cutoff_of(resp)
        results == resp.json
    IN  IF cutoff # None
        THEN IF Len(results) = 0 THEN Raise("IndexError")
             ELSE LET last == parse(results[Len(results)][stream.replication_key[1]])
                      cut == parse(cutoff[1])
                  IN  IF last.err \/ cut.err THEN Raise("ParserError")
                      ELSE IF last.aware # cut.aware THEN Raise("TypeError")
                      ELSE IF last.t < cut.t THEN Return(None)
                      ELSE GitLabStream_get_next_page_token(resp, previous_token)
        ELSE GitLabStream_get_next_page_token(resp, previous_token)

\* The emulated token with line 187's "<" written "<=".
NoSince_get_next_page_token_le(resp, previous_token) ==
    LET cutoff == cutoff_of(resp)
        results == resp.json
    IN  IF cutoff # None
        THEN IF Len(results) = 0 THEN Return(None)
             ELSE LET last == parse(results[Len(results)][stream.replication_key[1]])
                      cut == parse(cutoff[1])
                  IN  IF last.err \/ cut.err THEN Raise("ParserError")
                      ELSE IF last.aware # cut.aware THEN Raise("TypeError")
                      ELSE IF last.t <= cut.t THEN Return(None)
                      ELSE GitLabStream_get_next_page_token(resp, previous_token)
        ELSE GitLabStream_get_next_page_token(resp, previous_token)

\* NoSinceProjectBasedStream.get_next_page_token.  Comparing a naive with an
\* aware datetime raises TypeError; a text dateutil cannot read raises
\* ParserError.
NoSince_get_next_page_token(resp, previous_token) ==
    LET cutoff == cutoff_of(resp)
        results == resp.json
    IN  IF cutoff # None
        THEN IF Len(results) = 0 THEN Return(None)
             ELSE LET last == parse(results[Len(results)][stream.replication_key[1]])
                      cut == parse(cutoff[1])
                  IN  IF last.err \/ cut.err THEN Raise("ParserError")
                      ELSE IF last.aware # cut.aware THEN Raise("TypeError")
                      ELSE IF last.t < cut.t THEN Return(None)
                      ELSE GitLabStream_get_next_page_token(resp, previous_token)
        ELSE GitLabStream_get_next_page_token(resp, previous_token)

\* Method resolution: only NoSinceProjectBasedStream overrides the method.
get_next_page_token(resp, previous_token) ==
    IF stream.class = "NoSinceProjectBasedStream"
    THEN NoSince_get_next_page_token(resp, previous_token)
    ELSE GitLabStream_get_next_page_token(resp, previous_token)

---------------------------------------------------------------------------
(* One page of an emulated-"since" stream against an arbitrary response:   *)
(* build the parameters, send them, receive any page, decide the token.    *)

REPLICATION_KEY == "updated_at"

\* The records a page can hold: each carries its replication-key timestamp.
Records == {[updated_at |-> t] : t \in TimeTexts}

\* The response headers: X-Next-Page absent, empty, or a page number.
HeaderChoices ==
    {<<>>, [h \in {NEXT_PAGE_HEADER} |-> <<>>], [h \in {NEXT_PAGE_HEADER} |-> <<"2">>]}

ProjectContext == Some([project_id |-> <<"1">>])

NoSinceStreams ==
    {[class |-> "NoSinceProjectBasedStream", path |-> <<"/notes">>,
      replication_key |-> rk, is_timestamp_replication_key |-> ts,
      schema |-> <<>>] :
        rk \in {Some(REPLICATION_KEY)}, ts \in BOOLEAN}
    \cup {[class |-> "NoSinceProjectBasedStream", path |-> <<"/notes">>,
           replication_key |-> None, is_timestamp_replication_key |-> FALSE,
           schema |-> <<>>]}

LoopIdle ==
    /\ partition_list = <<>>
    /\ pidx = 0
    /\ dataset = <<>>
    /\ sent = {}
    /\ fetched = {}
    /\ finished = {}

loopVars == << partition_list, pidx, dataset, sent, fetched, finished >>

\* What only post_process and get_url read.
fnVars == << row, discard, order >>

PageInit ==
    /\ pc = "prepare"
    /\ stream \in NoSinceStreams
    /\ config = <<>>
    /\ extra_url_params = None
    /\ context = ProjectContext
    /\ \E b \in {None} \cup {Some(t) : t \in TimeTexts} :
          bookmarks = [c \in {ProjectContext} |-> b]
    /\ plus_encoded \in BOOLEAN
    /\ next_page_token \in {None, Some(<<"2">>)}
    /\ params = <<>>
    /\ request_query = {}
    /\ response = [json |-> <<>>, headers |-> <<>>, request_query |-> {}]
    /\ result = Return(None)
    /\ row = <<>>
    /\ discard = FALSE
    /\ order = <<>>
    /\ LoopIdle

\* prepare_request: get_url_params, then the transport's encoding.
PagePrepare ==
    /\ pc = "prepare"
    /\ LET r == get_url_params(context, next_page_token)
       IN  /\ params' = r.params
           /\ extra_url_params' = r.extra_url_params
           /\ request_query' = Urlencode(r.params, plus_encoded)
    /\ pc' = "sent"
    /\ UNCHANGED << stream, config, bookmarks, plus_encoded, context,
                    next_page_token, response, result, fnVars, loopVars >>

\* The server answers with any page and any X-Next-Page header.
PageRespond ==
    /\ pc = "sent"
    /\ \E body \in SeqUpTo(Records, MaxPageLen), h \in HeaderChoices :
          response' = [json |-> body, headers |-> h, request_query |-> request_query]
    /\ pc' = "received"
    /\ UNCHANGED << stream, config, extra_url_params, bookmarks, plus_encoded,
                    context, next_page_token, params, request_query, result,
                    fnVars, loopVars >>

PageToken ==
    /\ pc = "received"
    /\ result' = get_next_page_token(response, next_page_token)
    /\ pc' = "returned"
    /\ UNCHANGED << stream, config, extra_url_params, bookmarks, plus_encoded,
                    context, next_page_token, params, request_query, response,
                    fnVars, loopVars >>

PageNext == PagePrepare \/ PageRespond \/ PageToken

SpecPage == PageInit /\ [][PageNext]_vars

\* The native decision on the response at hand.
NativeDecision == Return(DictGet(response.headers, NEXT_PAGE_HEADER, None))

\* The cutoff the request was built with: the bookmark parameter's value.
SentCutoff == IF BOOKMARK_PARAM \in DOMAIN params THEN params[BOOKMARK_PARAM] ELSE None

LastRecordTime == parse(response.json[Len(response.json)][REPLICATION_KEY])

\* The last record's timestamp and the cutoff can be compared.
Comparable ==
    /\ Len(response.json) > 0
    /\ SentCutoff # None
    /\ ~parse(SentCutoff[1]).err
    /\ ~LastRecordTime.err
    /\ LastRecordTime.aware = parse(SentCutoff[1]).aware

Stops == result.exc = "" /\ ~Truthy(result.val)

(* C2 as stated: an empty page always stops, cutoff or not, X-Next-Page or *)
(* not.                                                                    *)
C2_EmptyAlwaysStops ==
    (pc = "returned" /\ response.json = <<>>) => Stops

(* C2, amended: an empty page stops whenever the sent query carries a      *)
(* cutoff, whatever X-Next-Page says; with no cutoff in the query the      *)
(* token of an empty page is the native decision.                          *)
C2_EmptyStopsUnderCutoff ==
    (pc = "returned" /\ response.json = <<>>) =>
        IF SentCutoff # None THEN result = Return(None) ELSE result = NativeDecision

\* An empty page that named a next page was the last one under a cutoff.
C2_Witness ==
    /\ pc = "returned"
    /\ response.json = <<>>
    /\ SentCutoff # None
    /\ DictGet(response.headers, NEXT_PAGE_HEADER, None) = Some(<<"2">>)
    /\ result = Return(None)

---------------------------------------------------------------------------
(* GroupBasedStream.partitions.                                            *)

\* `needle in hay` for Python strings.
Contains(hay, needle) ==
    \E i \in 0..(Len(hay) - Len(needle)) :
        \A j \in 1..Len(needle) : hay[i + j] = needle[j]

GROUP_PLACEHOLDER == <<"{", "group_id", "}">>
PROJECT_PLACEHOLDER == <<"{", "project_path", "}">>

\* str.split(sep) with an explicit one-atom separator: every occurrence of
\* sep ends a piece, so adjacent, leading or trailing separators yield "".
RECURSIVE split(_, _)
split(s, sep) ==
    IF \A i \in 1..Len(s) : s[i] # sep
    THEN <<s>>
    ELSE LET i == CHOOSE k \in 1..Len(s) :
                      s[k] = sep /\ \A j \in 1..(k - 1) : s[j] # sep
         IN  <<SubSeq(s, 1, i - 1)>> \o split(SubSeq(s, i + 1, Len(s)), sep)

\* partitions returning an empty list, instead of raising, when `groups`
\* is not configured.
GroupBasedStream_partitions_no_raise ==
    IF Contains(stream.path, GROUP_PLACEHOLDER)
    THEN IF "groups" \notin DOMAIN config
         THEN Return(<<>>)
         ELSE LET ids == split(config["groups"], " ")
              IN  Return([i \in 1..Len(ids) |-> [group_id |-> ids[i]]])
    ELSE Raise("ValueError")

\* GroupBasedStream.partitions: the list of partition contexts, or the
\* ValueError of lines 203 and 212.
GroupBasedStream_partitions ==
    IF Contains(stream.path, GROUP_PLACEHOLDER)
    THEN IF "groups" \notin DOMAIN config
         THEN Raise("ValueError")
         ELSE LET ids == split(config["groups"], " ")
              IN  Return([i \in 1..Len(ids) |-> [group_id |-> ids[i]]])
    ELSE Raise("ValueError")

---------------------------------------------------------------------------
(* The pull loop of the framework (RESTStream): for each partition context *)
(* {build the parameters, send the request, read the records, ask          *)
(* get_next_page_token} until no token is returned.  One request is in     *)
(* flight at a time and partitions are taken one after another.            *)
(*                                                                         *)
(* The server holds, for each partition, a finite list of records and      *)
(* serves it in pages of per_page records in ascending replication-key     *)
(* order; X-Next-Page names the next page while one exists and is empty or *)
(* absent on the last page.  An endpoint of an emulated stream ignores the *)
(* bookmark parameter.                                                     *)

GroupPath == <<"/groups/", "{", "group_id", "}", "/issues">>
ProjectPath == <<"/projects/", "{", "project_path", "}", "/notes">>
PlainPath == <<"/issues">>

LoopStreams ==
    {[class |-> "GroupBasedStream", path |-> pth,
      replication_key |-> rk[1], is_timestamp_replication_key |-> rk[2],
      schema |-> <<>>] :
        pth \in {GroupPath, PlainPath},
        rk \in {<<None, FALSE>>, <<Some(REPLICATION_KEY), TRUE>>}}
    \cup
    {[class |-> "NoSinceProjectBasedStream", path |-> ProjectPath,
      replication_key |-> Some(REPLICATION_KEY), is_timestamp_replication_key |-> ts,
      schema |-> <<>>] : ts \in BOOLEAN}

\* The `groups` setting: absent, one identifier, two identifiers.
LoopConfigs == {<<>>, [groups |-> <<"1">>], [groups |-> <<"1", " ", "2">>]}

\* The contexts the parent stream hands to a project-based stream.
ProjectContextLists ==
    {<<[project_id |-> <<"1">>]>>,
     <<[project_id |-> <<"1">>], [project_id |-> <<"2">>]>>}

\* extra_url_params of a stream class: none, or one static parameter.
ExtraChoices == {None, Some([scope |-> Some(<<"all">>)])}

\* The hours of a partition's records, in the order the server serves them.
AscendingHours ==
    {h \in SeqUpTo(Hours, MaxRecords) :
        \A i \in 1..Len(h) : \A j \in 1..Len(h) : i < j => h[i] <= h[j]}

RecordAt(h) == [updated_at |-> AwareText(h, 0)]

\* The page number a request asks for: its page parameter, 1 by default.
PageOf(p) ==
    IF "page" \in DOMAIN p /\ p["page"] # None /\ Len(p["page"][1]) = 1
       /\ IsNumber(p["page"][1][1], 1..(MaxRecords + 1))
    THEN NumberOf(p["page"][1][1], 1..(MaxRecords + 1))
    ELSE 1

\* Dataset indexes of page n.
PageIndexes(n) ==
    {i \in 1..Len(dataset.hours) :
        (n - 1) * dataset.per_page < i /\ i <= n * dataset.per_page}

LoopInit ==
    /\ pc = "start"
    /\ stream \in LoopStreams
    /\ config \in (IF stream.class = "GroupBasedStream" THEN LoopConfigs ELSE {<<>>})
    /\ extra_url_params \in ExtraChoices
    /\ context = None
    /\ bookmarks = <<>>
    /\ plus_encoded = TRUE
    /\ next_page_token = None
    /\ params = <<>>
    /\ request_query = {}
    /\ response = [json |-> <<>>, headers |-> <<>>, request_query |-> {}]
    /\ result = Return(None)
    /\ row = <<>>
    /\ discard = FALSE
    /\ order = <<>>
    /\ partition_list = <<>>
    /\ pidx = 0
    /\ dataset = [hours |-> <<>>, per_page |-> 1]
    /\ sent = {}
    /\ fetched = {}
    /\ finished = {}

\* Stream._sync_records: the partition contexts are computed first; an
\* error raised there ends the sync.  `partitions or [{}]`: an empty list
\* stands for one run without context.
StartSync ==
    /\ pc = "start"
    /\ IF stream.class = "GroupBasedStream"
       THEN LET r == GroupBasedStream_partitions
            IN  IF r.exc # ""
                THEN /\ pc' = "error"
                     /\ result' = r
                     /\ partition_list' = <<>>
                ELSE /\ pc' = "partition"
                     /\ result' = result
                     /\ partition_list' = IF r.val = <<>> THEN << <<>> >> ELSE r.val
       ELSE /\ pc' = "partition"
            /\ result' = result
            /\ partition_list' \in ProjectContextLists
    /\ UNCHANGED << stream, config, extra_url_params, bookmarks, plus_encoded,
                    context, next_page_token, params, request_query, response,
                    fnVars, pidx, dataset, sent, fetched, finished >>

\* The next partition: its context, what the server holds for it, and the
\* bookmark the sync of it starts from.
BeginPartition ==
    /\ pc = "partition"
    /\ pidx < Len(partition_list)
    /\ pidx' = pidx + 1
    /\ context' = Some(partition_list[pidx + 1])
    /\ \E h \in AscendingHours, n \in {1, MaxPageLen} :
          dataset' = [hours |-> h, per_page |-> n]
    /\ \E b \in {None} \cup {Some(AwareText(t, 0)) : t \in Hours} :
          bookmarks' = [c \in {context'} |-> b]
    /\ next_page_token' = None
    /\ pc' = "prepare"
    /\ UNCHANGED << stream, config, extra_url_params, plus_encoded, params,
                    request_query, response, result, fnVars,
                    partition_list, sent, fetched, finished >>

EndSync ==
    /\ pc = "partition"
    /\ pidx = Len(partition_list)
    /\ pc' = "done"
    /\ UNCHANGED << stream, config, extra_url_params, bookmarks, plus_encoded,
                    context, next_page_token, params, request_query, response,
                    result, fnVars, loopVars >>

\* request_records returns: the partition's request, response and token go
\* out of scope, and the for loop over the contexts takes its next turn.
LeavePartition ==
    /\ pc = "ended"
    /\ pc' = "partition"
    /\ next_page_token' = None
    /\ params' = <<>>
    /\ request_query' = {}
    /\ response' = [json |-> <<>>, headers |-> <<>>, request_query |-> {}]
    /\ bookmarks' = <<>>
    /\ dataset' = [hours |-> <<>>, per_page |-> 1]
    /\ fetched' = {}
    /\ UNCHANGED << stream, config, extra_url_params, plus_encoded, context,
                    result, fnVars, partition_list, pidx, sent, finished >>

\* prepare_request and the send.
LoopPrepare ==
    /\ pc = "prepare"
    /\ LET r == get_url_params(context, next_page_token)
       IN  /\ params' = r.params
           /\ extra_url_params' = r.extra_url_params
           /\ request_query' = Urlencode(r.params, plus_encoded)
           /\ sent' = sent \cup {<<pidx, PageOf(r.params)>>}
    /\ pc' = "sent"
    /\ UNCHANGED << stream, config, bookmarks, plus_encoded, context,
                    next_page_token, response, result, fnVars,
                    partition_list, pidx, dataset, fetched, finished >>

\* The server's answer to the request in flight.
LoopRespond ==
    /\ pc = "sent"
    /\ LET n == PageOf(params)
           idx == PageIndexes(n)
           lo == (n - 1) * dataset.per_page
           body == [i \in 1..Cardinality(idx) |-> RecordAt(dataset.hours[lo + i])]
           more == n * dataset.per_page < Len(dataset.hours)
       IN  /\ \E h \in (IF more
                        THEN {[k \in {NEXT_PAGE_HEADER} |-> <<ToString(n + 1)>>]}
                        ELSE {<<>>, [k \in {NEXT_PAGE_HEADER} |-> <<>>]}) :
                 response' = [json |-> body, headers |-> h,
                              request_query |-> request_query]
           /\ fetched' = fetched \cup idx
    /\ pc' = "received"
    /\ UNCHANGED << stream, config, extra_url_params, bookmarks, plus_encoded,
                    context, next_page_token, params, request_query, result,
                    fnVars, partition_list, pidx, dataset, sent, finished >>

\* get_next_page_token and the loop's test `finished = not next_page_token`.
\* An exception ends the sync.
LoopToken ==
    /\ pc = "received"
    /\ LET r == get_next_page_token(response, next_page_token)
       IN  IF r.exc # ""
           THEN /\ pc' = "error"
                /\ result' = r
                /\ UNCHANGED << next_page_token, finished >>
           ELSE IF Truthy(r.val)
           THEN /\ pc' = "prepare"
                /\ next_page_token' = r.val
                /\ UNCHANGED << result, finished >>
           ELSE /\ pc' = "ended"
                /\ next_page_token' = r.val
                /\ finished' = finished \cup {pidx}
                /\ UNCHANGED result
    /\ UNCHANGED << stream, config, extra_url_params, bookmarks, plus_encoded,
                    context, params, request_query, response, fnVars,
                    partition_list, pidx, dataset, sent, fetched >>

Next ==
    \/ StartSync
    \/ BeginPartition
    \/ LoopPrepare
    \/ LoopRespond
    \/ LoopToken
    \/ LeavePartition
    \/ EndSync

Spec == LoopInit /\ [][Next]_vars

\* The loop runs on while it can: the framework never abandons a sync.  The
\* static parameters play no part in when the loop ends, so the runs with
\* none are followed.
LiveInit == LoopInit /\ extra_url_params = None

LiveSpec == LiveInit /\ [][Next]_vars /\ WF_vars(Next)

---------------------------------------------------------------------------
(* Properties of the pull loop.                                            *)

Native == stream.class # "NoSinceProjectBasedStream"

\* The X-Next-Page header of the response at hand, None when absent.
Header == DictGet(response.headers, NEXT_PAGE_HEADER, None)

\* The requests issued so far for partition p.
RequestsOf(p) == {r \in sent : r[1] = p}

\* No further request is issued for a partition whose pagination ended.
NoRequestAfterEnd == \A p \in finished : RequestsOf(p)' = RequestsOf(p)

\* The current partition's pagination has just ended.
PartitionEnded == pc = "ended"

\* The emulated cutoff comparison found the page's last record older.
OlderThanCutoff ==
    /\ ~Native
    /\ Comparable
    /\ LastRecordTime.t < parse(SentCutoff[1]).t

(* C3: native pagination.  A non-empty X-Next-Page value is exactly the    *)
(* next token and the loop goes on with it in the same partition; an       *)
(* absent or empty header makes the page the last one, the partition's     *)
(* pagination ends, and no further request is issued for that partition.   *)
C3_NativeToken ==
    /\ [][(pc = "received" /\ Native) =>
            IF Truthy(Header)
            THEN pc' = "prepare" /\ next_page_token' = Header /\ pidx' = pidx
            ELSE pc' = "ended" /\ pidx \in finished']_vars
    /\ [][NoRequestAfterEnd]_vars

\* A native partition was read in two pages and then ended.
C3_Witness ==
    /\ Native
    /\ PartitionEnded
    /\ pidx \in finished
    /\ <<pidx, 2>> \in sent
    /\ ~Truthy(Header)

(* C4: for every partition the pagination loop terminates, native or       *)
(* emulated: the sync reaches its end, every partition's loop ended on a   *)
(* response without X-Next-Page, or on a page whose last record is older   *)
(* than the cutoff, or on an empty page, and an ended partition is never   *)
(* requested again.                                                        *)
C4_PaginationTerminates ==
    /\ <>(pc \in {"done", "error"})
    /\ [](pc = "done" => finished = 1..Len(partition_list))
    /\ [](PartitionEnded =>
            /\ pidx \in finished
            /\ (~Truthy(Header) \/ OlderThanCutoff \/ response.json = <<>>))
    /\ [][NoRequestAfterEnd]_vars

\* The second partition of an emulated stream ended on the cutoff while the
\* server still named a next page.
C4_Witness ==
    /\ ~Native
    /\ PartitionEnded
    /\ pidx = 2
    /\ Truthy(Header)
    /\ OlderThanCutoff

(* C5: when emulated pagination stops early because the page's last record *)
(* is strictly earlier than the cutoff, and the server serves the records  *)
(* in ascending replication-key order, no record at or after the cutoff is *)
(* left unfetched in the partition.                                        *)
C5_NothingNewerLeft ==
    (PartitionEnded /\ OlderThanCutoff) =>
        \A i \in (1..Len(dataset.hours)) \ fetched :
            parse(RecordAt(dataset.hours[i])[REPLICATION_KEY]).t
                < parse(SentCutoff[1]).t

\* The scope of a group-partitioned stream cannot be resolved.
ConfigurationError ==
    /\ stream.class = "GroupBasedStream"
    /\ \/ Contains(stream.path, GROUP_PLACEHOLDER) /\ "groups" \notin DOMAIN config
       \/ /\ ~Contains(stream.path, GROUP_PLACEHOLDER)
          /\ ~Contains(stream.path, PROJECT_PLACEHOLDER)

(* C8: configuration errors fail fast.  For a group-partitioned stream     *)
(* whose path holds {group_id} while `groups` is not configured, or whose  *)
(* path holds neither placeholder, computing the partitions raises, no     *)
(* partition is produced and no request is issued.                         *)
C8_FailFast ==
    ConfigurationError =>
        /\ pc \in {"start", "error"}
        /\ pc = "error" => result = Raise("ValueError")
        /\ partition_list = <<>>
        /\ sent = {}

\* The sync of a {group_id} stream without `groups` ended in the error.
C8_Witness ==
    /\ pc = "error"
    /\ Contains(stream.path, GROUP_PLACEHOLDER)
    /\ "groups" \notin DOMAIN config
    /\ sent = {}

\* The parameters a request is to carry, key by key.
ExpectedParams(static, token, ctx) ==
    LET keyed == stream.replication_key # None
        stamped == keyed /\ stream.is_timestamp_replication_key
        keys == DOMAIN static
                \cup (IF Truthy(token) THEN {"page"} ELSE {})
                \cup (IF keyed THEN {"sort", "order_by"} ELSE {})
                \cup (IF stamped THEN {BOOKMARK_PARAM} ELSE {})
    IN  [k \in keys |->
            IF k = BOOKMARK_PARAM /\ stamped THEN get_starting_timestamp(ctx)
            ELSE IF k = "order_by" /\ keyed THEN Some(<<stream.replication_key[1]>>)
            ELSE IF k = "sort" /\ keyed THEN Some(<<"asc">>)
            ELSE IF k = "page" /\ Truthy(token) THEN token
            ELSE static[k]]

StaticParams == IF extra_url_params = None THEN <<>> ELSE extra_url_params[1]

(* C10: over any run of page requests and partitions, a request's          *)
(* parameters are the static extra parameters, plus page exactly when a    *)
(* token is known (and equal to it), plus sort=asc and order_by exactly    *)
(* when there is a replication key, plus the bookmark parameter exactly    *)
(* when that key is a timestamp; building them leaves the static extra     *)
(* parameters unchanged, so a partition's first request carries no page.   *)
C10_RequestParams ==
    /\ [](pc = "sent" =>
            params = ExpectedParams(StaticParams, next_page_token, context))
    /\ [][extra_url_params' = extra_url_params]_vars
    /\ []((pc = "sent" /\ Cardinality(RequestsOf(pidx)) = 1) =>
            "page" \notin DOMAIN params)

\* The first request of a second partition, after a partition of two pages,
\* of a stream with static parameters and a timestamp replication key.
C10_Witness ==
    /\ pc = "sent"
    /\ pidx = 2
    /\ Cardinality(RequestsOf(2)) = 1
    /\ <<1, 2>> \in sent
    /\ extra_url_params # None
    /\ DOMAIN params = {"scope", "sort", "order_by", BOOKMARK_PARAM}

---------------------------------------------------------------------------
(* GroupBasedStream.partitions on its own, over every `groups` value.      *)

\* The characters of a `groups` value: two identifier characters, a space
\* and a tab.
GroupsAtoms == {"1", "2", " ", "\t"}
Whitespace == {" ", "\t"}

\* No request is in preparation or in flight.
RequestIdle ==
    /\ extra_url_params = None
    /\ bookmarks = <<>>
    /\ plus_encoded = TRUE
    /\ next_page_token = None
    /\ params = <<>>
    /\ request_query = {}
    /\ response = [json |-> <<>>, headers |-> <<>>, request_query |-> {}]

requestVars == << extra_url_params, bookmarks, plus_encoded, next_page_token,
                  params, request_query, response >>

GroupStreams ==
    {[class |-> "GroupBasedStream", path |-> pth, replication_key |-> None,
      is_timestamp_replication_key |-> FALSE, schema |-> <<>>] :
        pth \in {GroupPath, PlainPath}}

PartInit ==
    /\ pc = "call"
    /\ stream \in GroupStreams
    /\ config \in {<<>>} \cup {[groups |-> g] : g \in SeqUpTo(GroupsAtoms, MaxGroupsLen)}
    /\ context = None
    /\ result = Return(None)
    /\ row = <<>>
    /\ discard = FALSE
    /\ order = <<>>
    /\ RequestIdle
    /\ LoopIdle

PartCompute ==
    /\ pc = "call"
    /\ result' = GroupBasedStream_partitions
    /\ pc' = "returned"
    /\ UNCHANGED << stream, config, context, fnVars, requestVars, loopVars >>

PartNext == PartCompute

SpecPart == PartInit /\ [][PartNext]_vars

\* The identifiers of a whitespace-separated list: its maximal runs of
\* characters that are not whitespace.
RECURSIVE Identifiers(_)
Identifiers(s) ==
    IF s = <<>> THEN <<>>
    ELSE IF s[1] \in Whitespace THEN Identifiers(Tail(s))
    ELSE LET n == CHOOSE k \in 1..Len(s) :
                      /\ \A j \in 1..k : s[j] \notin Whitespace
                      /\ (k = Len(s) \/ s[k + 1] \in Whitespace)
         IN  <<SubSeq(s, 1, n)>> \o Identifiers(SubSeq(s, n + 1, Len(s)))

(* C7: for a stream whose path holds {group_id} and any `groups` value     *)
(* that is a whitespace-separated list of n >= 1 identifiers, partitions   *)
(* is exactly the n contexts {"group_id": id}, one per identifier, in      *)
(* order, with no partition for an empty identifier.                       *)
C7_OnePartitionPerGroup ==
    (pc = "returned" /\ Contains(stream.path, GROUP_PLACEHOLDER)
                     /\ "groups" \in DOMAIN config
                     /\ Len(Identifiers(config["groups"])) >= 1) =>
        LET ids == Identifiers(config["groups"])
        IN  result = Return([i \in 1..Len(ids) |-> [group_id |-> ids[i]]])

---------------------------------------------------------------------------
(* GitLabStream.post_process on its own.                                   *)

\* The framework's post_process (RESTStream): the row, or None to drop it.
super_post_process(r, ctx) == IF discard THEN None ELSE Some(r)

\* post_process with line 141's test `key not in result` left out.
post_process_overwrites(r, ctx) ==
    LET res == super_post_process(r, ctx)
    IN  IF res = None THEN Return(None)
        ELSE IF ctx = None THEN Raise("AssertionError")
        ELSE LET properties == DictGet(stream.schema, "properties", Some(<<>>))[1]
                 filled == {key \in DOMAIN ctx[1] : key \in DOMAIN properties}
             IN  Return(Some([key \in DOMAIN res[1] \cup filled |->
                                 IF key \in filled THEN ctx[1][key] ELSE res[1][key]]))

\* GitLabStream.post_process.  The loop of lines 140-142 treats each context
\* key by itself, so its outcome is given key by key.
post_process(r, ctx) ==
    LET res == super_post_process(r, ctx)
    IN  IF res = None THEN Return(None)
        ELSE IF ctx = None THEN Raise("AssertionError")
        ELSE LET properties == DictGet(stream.schema, "properties", Some(<<>>))[1]
                 filled == {key \in DOMAIN ctx[1] :
                               key \in DOMAIN properties /\ key \notin DOMAIN res[1]}
             IN  Return(Some([key \in DOMAIN res[1] \cup filled |->
                                 IF key \in filled THEN ctx[1][key] ELSE res[1][key]]))

\* A dict over some of the keys, each with one of its values.
Dicts(keys, valuesOf(_)) ==
    UNION {{f \in [ks -> UNION {valuesOf(k) : k \in ks}] :
                \A k \in ks : f[k] \in valuesOf(k)} : ks \in SUBSET keys}

RowValues(k) == IF k = "id" THEN {<<"5">>} ELSE {<<"20">>, <<"99">>}
ContextValues(k) == IF k = "group_id" THEN {<<"20">>} ELSE {<<"7">>}
SchemaType(k) == {"string"}

PostRows == Dicts({"id", "group_id"}, RowValues)
PostContexts == {None} \cup {Some(c) : c \in Dicts({"group_id", "project_id"}, ContextValues)}
PostSchemas ==
    {<<>>} \cup {[p \in {"properties"} |-> d] :
                    d \in Dicts({"id", "group_id", "project_id"}, SchemaType)}

PostInit ==
    /\ pc = "call"
    /\ \E sch \in PostSchemas :
          stream = [class |-> "GroupBasedStream", path |-> GroupPath,
                    replication_key |-> None,
                    is_timestamp_replication_key |-> FALSE, schema |-> sch]
    /\ config = <<>>
    /\ context \in PostContexts
    /\ row \in PostRows
    /\ discard \in BOOLEAN
    /\ order = <<>>
    /\ result = Return(None)
    /\ RequestIdle
    /\ LoopIdle

PostProcess ==
    /\ pc = "call"
    /\ result' = post_process(row, context)
    /\ pc' = "returned"
    /\ UNCHANGED << stream, config, context, fnVars, requestVars, loopVars >>

PostNext == PostProcess

SpecPost == PostInit /\ [][PostNext]_vars

\* The properties the stream's schema declares.
Declared == IF "properties" \in DOMAIN stream.schema
            THEN DOMAIN stream.schema["properties"] ELSE {}

(* C9: post_process.  A record the framework discards gives the discard    *)
(* signal.  Otherwise, for every context key: the result holds the         *)
(* context's value under it exactly when the key is declared in the        *)
(* schema's properties and was absent from the record; a field present in  *)
(* the record keeps the record's value; an undeclared context key is not   *)
(* injected.  So every emitted record carries its declared partition field.*)
C9_PostProcess ==
    pc = "returned" =>
        /\ discard => result = Return(None)
        /\ (~discard /\ context # None) =>
              /\ result.exc = ""
              /\ result.val # None
              /\ LET out == result.val[1]
                     ctx == context[1]
                 IN  /\ DOMAIN row \subseteq DOMAIN out
                     /\ DOMAIN out \subseteq DOMAIN row \cup DOMAIN ctx
                     /\ \A k \in DOMAIN row : out[k] = row[k]
                     /\ \A k \in DOMAIN ctx \ DOMAIN row :
                           IF k \in Declared
                           THEN k \in DOMAIN out /\ out[k] = ctx[k]
                           ELSE k \notin DOMAIN out
                     /\ \A k \in DOMAIN ctx \cap Declared : k \in DOMAIN out

\* A record with its own group_id and no project_id, under a context that
\* holds both, both declared: group_id kept, project_id filled in.
C9_Witness ==
    /\ pc = "returned"
    /\ ~discard
    /\ context = Some([group_id |-> <<"20">>, project_id |-> <<"7">>])
    /\ Declared = {"id", "group_id", "project_id"}
    /\ row = [group_id |-> <<"99">>]
    /\ result = Return(Some([group_id |-> <<"99">>, project_id |-> <<"7">>]))

---------------------------------------------------------------------------
(* GitLabStream.get_url on its own, over every short path template.  A     *)
(* placeholder is the three atoms "{", name, "}".                          *)

DEFAULT_REST_API_URL == "https://gitlab.com/api/v4"

\* url_base when no api_url is configured: the default, which has a path.
url_base == <<DEFAULT_REST_API_URL>>

\* _url_encode with the quoting left out.
url_encode_unquoted(val) == val

\* GitLabStream._url_encode: quote_plus(str(val)); val is a str here.
url_encode(val) == quote_plus(val)

\* str.replace(old, new): every occurrence, left to right, none overlapping.
RECURSIVE Replace(_, _, _)
Replace(s, old, new) ==
    IF Len(s) < Len(old) THEN s
    ELSE IF SubSeq(s, 1, Len(old)) = old
    THEN new \o Replace(SubSeq(s, Len(old) + 1, Len(s)), old, new)
    ELSE <<s[1]>> \o Replace(Tail(s), old, new)

\* Lines 117-118: the config overlaid by the context.
MergedVals(ctx) ==
    LET c == IF ctx = None THEN <<>> ELSE ctx[1]
    IN  [k \in DOMAIN config \cup DOMAIN c |-> IF k \in DOMAIN c THEN c[k] ELSE config[k]]

\* The order of vals.items(): the config's keys in their insertion order,
\* then the context's keys the config does not hold, in theirs.
ItemsOrder(ctx) ==
    order.config \o SelectSeq(order.context, LAMBDA k : k \notin DOMAIN config)

\* Lines 119-122: the keys in turn, each replaced where its search text
\* occurs in the URL as the earlier keys left it.
RECURSIVE Substitute(_, _, _)
Substitute(url, vals, keys) ==
    IF keys = <<>> THEN url
    ELSE LET search_text == <<"{", Head(keys), "}">>
             next == IF Contains(url, search_text)
                     THEN Replace(url, search_text, url_encode(vals[Head(keys)]))
                     ELSE url
         IN  Substitute(next, vals, Tail(keys))

\* GitLabStream.get_url.
get_url(ctx) == Substitute(url_base \o stream.path, MergedVals(ctx), ItemsOrder(ctx))

UrlAtoms == {"{", "}", "a", "b"}
UrlKeys == {"a", "b"}
UrlValues(k) == {<<"b">>, <<"{", "b", "}">>}

\* Every ordering of a set of keys.
Orderings(S) == {o \in [1..Cardinality(S) -> S] : \A k \in S : \E i \in DOMAIN o : o[i] = k}

UrlInit ==
    /\ pc = "call"
    /\ \E pth \in SeqUpTo(UrlAtoms, MaxPathLen) :
          stream = [class |-> "GitLabStream", path |-> pth, replication_key |-> None,
                    is_timestamp_replication_key |-> FALSE, schema |-> <<>>]
    /\ config \in Dicts(UrlKeys, UrlValues)
    /\ context \in {None} \cup {Some(c) : c \in Dicts({"a"}, UrlValues)}
    /\ \E oc \in Orderings(DOMAIN config),
          ox \in Orderings(IF context = None THEN {} ELSE DOMAIN context[1]) :
          order = [config |-> oc, context |-> ox]
    /\ row = <<>>
    /\ discard = FALSE
    /\ result = Return(None)
    /\ RequestIdle
    /\ LoopIdle

UrlResolve ==
    /\ pc = "call"
    /\ result' = Return(Some(get_url(context)))
    /\ pc' = "returned"
    /\ UNCHANGED << stream, config, context, fnVars, requestVars, loopVars >>

UrlNext == UrlResolve

SpecUrl == UrlInit /\ [][UrlNext]_vars

\* The URL with every placeholder of the template whose name is a key put
\* in place at once, and everything else left as it is.
RECURSIVE Resolved(_, _)
Resolved(url, vals) ==
    IF url = <<>> THEN <<>>
    ELSE IF Len(url) >= 3 /\ url[1] = "{" /\ url[3] = "}" /\ url[2] \in DOMAIN vals
    THEN quote_plus(vals[url[2]]) \o Resolved(SubSeq(url, 4, Len(url)), vals)
    ELSE <<url[1]>> \o Resolved(Tail(url), vals)

\* The template's braces are nested: a "{" follows a "{" that no "}" has
\* closed yet.
NestedBraces(url) ==
    \E i \in 1..Len(url) : \E j \in (i + 1)..Len(url) :
        /\ url[i] = "{"
        /\ url[j] = "{"
        /\ \A n \in (i + 1)..(j - 1) : url[n] # "}"

(* C6 as stated: for all path templates, configurations and contexts,      *)
(* every {name} whose name is a key of the merged mapping (context over    *)
(* configuration) is replaced everywhere by the URL-encoded value, every    *)
(* other placeholder is left as literal text, and the result does not      *)
(* depend on the order in which the keys are substituted.                  *)
C6_Resolved ==
    pc = "returned" =>
        result = Return(Some(Resolved(url_base \o stream.path, MergedVals(context))))

(* C6, amended: the same, for the path templates whose braces are not      *)
(* nested.                                                                 *)
C6_ResolvedUnlessNested ==
    (pc = "returned" /\ ~NestedBraces(stream.path)) =>
        result = Return(Some(Resolved(url_base \o stream.path, MergedVals(context))))

\* {a}{b}{a} with b from the config and a from both, the context's value
\* holding braces, resolved with b substituted first.
C6_Witness ==
    /\ pc = "returned"
    /\ stream.path = <<"{", "a", "}", "{", "b", "}">>
    /\ config = [a |-> <<"b">>, b |-> <<"b">>]
    /\ context = Some([a |-> <<"{", "b", "}">>])
    /\ order.config = <<"b", "a">>
    /\ result = Return(Some(<<DEFAULT_REST_API_URL, "%7B", "b", "%7D", "b">>))

===========================================================================
